---- MODULE Spec2Model ----
(***************************************************************************)
(* MariaDBDatabaseReconciler.Reconcile and getDatabaseObject               *)
(* (controllers/mariadbdatabase_controller.go) as a state machine over the *)
(* object store: the MariaDBDatabase claims, the Galera and MariaDB        *)
(* backing-store objects, and the DbCreate jobs.  One Reconcile invocation *)
(* per claim runs at a time; invocations of different claims interleave at *)
(* their store operations.                                                 *)
(***************************************************************************)
EXTENDS Naturals, FiniteSets, Sequences, TLC

VARIABLES
    claim,      \* store: claim name -> MariaDBDatabase object
    db,         \* store: variant -> Galera / MariaDB object named by the dbName label
    job,        \* store: claim name -> its DbCreate job
    pc,         \* position of the running Reconcile of each claim
    inst,       \* Reconcile's local `instance`
    before,     \* the helper's snapshot of `instance` taken by NewHelper
    dbres,      \* outcome of getDatabaseObject in this invocation
    dbobj,      \* Reconcile's local `db` object
    stale,      \* the stored db object was written after `db` was read
    result,     \* (result, _err) of the invocation
    log,        \* store and executor operations of the invocation, in order
    lastRes,    \* result of the previous undisturbed invocation, if any
    taint,      \* something outside the invocation changed or failed during it
    envSteps    \* number of environment changes so far

vars == <<claim, db, job, pc, inst, before, dbres, dbobj, stale, result, log,
          lastRes, taint, envSteps>>

(***************************************************************************)
(* Bounds and constants                                                    *)
(***************************************************************************)
MaxEnv == 2

RequeueDependency == 10
RequeueJob == 5

Claims == {"c1", "c2"}
Variants == {"Galera", "MariaDB"}
Payloads == {"p1", "p2"}
NoHash == ""

GetFinalizer == "MariaDBDatabase"

\* Mutant: the token put on the backing store does not name the claim.
TokenShared(c) == <<GetFinalizer, "">>

Token(c) == <<GetFinalizer, c>>

Hash(p) == IF p = "p1" THEN "h1" ELSE "h2"

Res(req, e) == [requeue |-> req, err |-> e]

NoRes == [requeue |-> 0, err |-> FALSE, none |-> TRUE, added |-> FALSE]

AddFinalizer(fins, tok) == fins \cup {tok}

RemoveFinalizer(fins, tok) == fins \ {tok}

ContainsFinalizer(fins, tok) == tok \in fins

\* The status of a backing-store object carries the field of its own kind,
\* Status.Bootstrapped or Status.DbInitHash; the other one stays at its zero.
IsReady(v, o) ==
    IF v = "Galera" THEN o.status.Bootstrapped ELSE o.status.DbInitHash # ""

NotReadyStatus(v) == [Bootstrapped |-> FALSE, DbInitHash |-> ""]

ReadyStatus(v) ==
    IF v = "Galera" THEN [Bootstrapped |-> TRUE, DbInitHash |-> ""]
                    ELSE [Bootstrapped |-> FALSE, DbInitHash |-> "inithash"]

NoDb == [exists |-> FALSE, fins |-> {}, status |-> NotReadyStatus("Galera"),
         spec |-> "p1"]

NoInst == [del |-> FALSE, fins |-> {}, hash |-> NoHash, completed |-> FALSE]

NoJob == [state |-> "none", hash |-> NoHash]

FreshClaim == [exists |-> TRUE, del |-> FALSE, fins |-> {}, hash |-> NoHash,
               completed |-> FALSE]

GoneClaim == [exists |-> FALSE, del |-> FALSE, fins |-> {}, hash |-> NoHash,
              completed |-> FALSE]

InstanceOf(o) == [del |-> o.del, fins |-> o.fins, hash |-> o.hash,
                  completed |-> o.completed]

(***************************************************************************)
(* Helpers on the state                                                    *)
(***************************************************************************)
\* Every claim in S sees an outside change: a running invocation of it is no
\* longer undisturbed, and neither is the pair it forms with the previous one.
Disturb(S) ==
    /\ taint' = [x \in Claims |-> IF x \in S /\ pc[x] # "idle" THEN TRUE ELSE taint[x]]
    /\ lastRes' = [x \in Claims |-> IF x \in S THEN NoRes ELSE lastRes[x]]

\* A store operation of c's own invocation fails.
Fault(c) ==
    /\ taint' = [taint EXCEPT ![c] = TRUE]
    /\ lastRes' = [lastRes EXCEPT ![c] = NoRes]

\* The stored object of variant v is replaced; every other holder of a copy
\* of it now holds an outdated resourceVersion.
WriteDb(v, o, writer) ==
    /\ db' = [db EXCEPT ![v] = o]
    /\ stale' = [x \in Claims |->
                    IF x # writer /\ dbres[x] = v THEN TRUE ELSE stale[x]]

Append1(c, op) == log' = [log EXCEPT ![c] = Append(@, op)]

Goto(c, l) == pc' = [pc EXCEPT ![c] = l]

SetResult(c, r) == result' = [result EXCEPT ![c] = r]

(***************************************************************************)
(* Initial states: the claims have just been created, the backing store    *)
(* is in any state an operator may have left it in.                        *)
(***************************************************************************)
InitDbs ==
    [Variants -> {"absent", "notready", "ready"}]

InitDb(v, k) ==
    IF k = "absent" THEN NoDb
    ELSE [exists |-> TRUE, fins |-> {},
          status |-> IF k = "ready" THEN ReadyStatus(v) ELSE NotReadyStatus(v),
          spec |-> "p1"]

InitLocals ==
    /\ job = [c \in Claims |-> NoJob]
    /\ pc = [c \in Claims |-> "idle"]
    /\ inst = [c \in Claims |-> NoInst]
    /\ before = [c \in Claims |-> NoInst]
    /\ dbres = [c \in Claims |-> "none"]
    /\ dbobj = [c \in Claims |-> NoDb]
    /\ stale = [c \in Claims |-> FALSE]
    /\ result = [c \in Claims |-> Res(0, FALSE)]
    /\ log = [c \in Claims |-> <<>>]
    /\ lastRes = [c \in Claims |-> NoRes]
    /\ taint = [c \in Claims |-> FALSE]
    /\ envSteps = 0

\* One claim has been created; the name of the other is not in the store.
Init ==
    /\ claim = [c \in Claims |-> IF c = "c1" THEN FreshClaim ELSE GoneClaim]
    /\ \E k \in InitDbs : db = [v \in Variants |-> InitDb(v, k[v])]
    /\ InitLocals

\* Two claims that carry the same dbName label have been created.
InitTwo ==
    /\ claim = [c \in Claims |-> FreshClaim]
    /\ \E k \in InitDbs : db = [v \in Variants |-> InitDb(v, k[v])]
    /\ InitLocals

(***************************************************************************)
(* Reconcile, lines 75-105: fetch the claim, build the helper, register    *)
(* the deferred PatchInstance.                                             *)
(***************************************************************************)
Fetch(c) ==
    /\ pc[c] = "idle"
    /\ \/ /\ claim[c].exists
          /\ inst' = [inst EXCEPT ![c] = InstanceOf(claim[c])]
          /\ before' = [before EXCEPT ![c] = InstanceOf(claim[c])]
          /\ Goto(c, "getGalera")
          /\ UNCHANGED <<result, taint, lastRes>>
       \/ /\ ~claim[c].exists              \* IgnoreNotFound: nothing to do
          /\ SetResult(c, Res(0, FALSE))
          /\ Goto(c, "done")
          /\ UNCHANGED <<inst, before, taint, lastRes>>
       \/ /\ claim[c].exists               \* the Get fails
          /\ SetResult(c, Res(0, TRUE))
          /\ Goto(c, "done")
          /\ Fault(c)
          /\ UNCHANGED <<inst, before>>
    /\ Append1(c, "Get")
    /\ UNCHANGED <<claim, db, job, dbres, dbobj, stale, envSteps>>

(***************************************************************************)
(* getDatabaseObject, lines 226-261                                        *)
(***************************************************************************)
Resolved(c, v) ==
    /\ dbres' = [dbres EXCEPT ![c] = v]
    /\ dbobj' = [dbobj EXCEPT ![c] = db[v]]
    /\ stale' = [stale EXCEPT ![c] = FALSE]
    /\ Goto(c, "resolved")
    /\ UNCHANGED <<taint, lastRes>>

Unresolved(c, e) ==
    /\ dbres' = [dbres EXCEPT ![c] = e]
    /\ Goto(c, "resolved")
    /\ UNCHANGED <<dbobj, stale>>

\* Mutant: the Galera object is used only when no MariaDB object exists.
GetGaleraAfterMariadb(c) ==
    /\ pc[c] = "getGalera"
    /\ \/ db["Galera"].exists /\ ~db["MariaDB"].exists /\ Resolved(c, "Galera")
       \/ /\ ~db["Galera"].exists \/ db["MariaDB"].exists
          /\ Goto(c, "getMariadb")
          /\ UNCHANGED <<dbres, dbobj, stale, taint, lastRes>>
       \/ Unresolved(c, "Error") /\ Fault(c)
    /\ Append1(c, "GetGalera")
    /\ UNCHANGED <<claim, db, job, inst, before, result, envSteps>>

GetGalera(c) ==
    /\ pc[c] = "getGalera"
    /\ \/ db["Galera"].exists /\ Resolved(c, "Galera")
       \/ /\ ~db["Galera"].exists          \* NotFound: try MariaDB
          /\ Goto(c, "getMariadb")
          /\ UNCHANGED <<dbres, dbobj, stale, taint, lastRes>>
       \/ Unresolved(c, "Error") /\ Fault(c)
    /\ Append1(c, "GetGalera")
    /\ UNCHANGED <<claim, db, job, inst, before, result, envSteps>>

GetMariadb(c) ==
    /\ pc[c] = "getMariadb"
    /\ \/ db["MariaDB"].exists /\ Resolved(c, "MariaDB")
       \/ /\ ~db["MariaDB"].exists
          /\ Unresolved(c, "NotFound")
          /\ UNCHANGED <<taint, lastRes>>
       \/ Unresolved(c, "Error") /\ Fault(c)
    /\ Append1(c, "GetMariadb")
    /\ UNCHANGED <<claim, db, job, inst, before, result, envSteps>>

(***************************************************************************)
(* r.Update(ctx, db), lines 115 and 142: the write is refused when the     *)
(* object was written since it was read or is gone, and may fail.          *)
(***************************************************************************)
Conflict(c) == stale[c] \/ ~db[dbres[c]].exists

UpdateOk(c) ==
    /\ ~Conflict(c)
    /\ WriteDb(dbres[c], [db[dbres[c]] EXCEPT !.fins = dbobj[c].fins], c)
    /\ Disturb(Claims \ {c})
    /\ Append1(c, "Update")

\* Mutant: the error of r.Update returns before the deferred patch exists.
UpdateFailsNoPatch(c) ==
    /\ SetResult(c, Res(0, TRUE))
    /\ Goto(c, "done")
    /\ Fault(c)
    /\ Append1(c, "UpdateFailed")
    /\ UNCHANGED <<db, stale, inst>>

\* Mutant: the error of r.Update is dropped.
UpdateFailsIgnored(c) ==
    /\ SetResult(c, Res(0, FALSE))
    /\ Goto(c, "patch")
    /\ Fault(c)
    /\ Append1(c, "UpdateFailed")
    /\ UNCHANGED <<db, stale, inst>>

UpdateFails(c) ==
    /\ SetResult(c, Res(0, TRUE))
    /\ Goto(c, "patch")
    /\ Fault(c)
    /\ Append1(c, "UpdateFailed")
    /\ UNCHANGED <<db, stale, inst>>

(***************************************************************************)
(* Deletion path, lines 111-127                                            *)
(***************************************************************************)
\* Mutant: the claim's own finalizer is left in place.
RemoveOwnKeeps(c) ==
    /\ inst' = inst
    /\ SetResult(c, Res(0, FALSE))
    /\ Goto(c, "patch")

RemoveOwn(c) ==
    /\ inst' = [inst EXCEPT ![c].fins = RemoveFinalizer(@, GetFinalizer)]
    /\ SetResult(c, Res(0, FALSE))
    /\ Goto(c, "patch")

SkipsDetach(c) == dbres[c] \notin Variants

\* Mutant: the claim releases itself without detaching from the backing store.
DeleteDetachNoUpdate(c) ==
    /\ pc[c] = "resolved"
    /\ inst[c].del
    /\ RemoveOwn(c)
    /\ UNCHANGED <<claim, db, job, before, dbres, dbobj, stale, log, lastRes, taint,
                   envSteps>>

DeleteDetach(c) ==
    /\ pc[c] = "resolved"
    /\ inst[c].del
    /\ IF ~SkipsDetach(c) /\ ContainsFinalizer(dbobj[c].fins, Token(c))
       THEN /\ dbobj' = [dbobj EXCEPT ![c].fins = RemoveFinalizer(@, Token(c))]
            /\ Goto(c, "delUpdate")
            /\ UNCHANGED <<inst, result>>
       ELSE /\ RemoveOwn(c)
            /\ UNCHANGED dbobj
    /\ UNCHANGED <<claim, db, job, before, dbres, stale, log, lastRes, taint, envSteps>>

DeleteUpdate(c) ==
    /\ pc[c] = "delUpdate"
    /\ \/ UpdateOk(c) /\ RemoveOwn(c)
       \/ UpdateFails(c)
    /\ UNCHANGED <<claim, job, before, dbres, dbobj, envSteps>>

(***************************************************************************)
(* Not a delete and no backing store, lines 129-137                        *)
(***************************************************************************)
\* Mutant: a missing backing store is returned as an error.
NoDatabaseError(c) ==
    /\ pc[c] = "resolved"
    /\ ~inst[c].del
    /\ dbres[c] \notin Variants
    /\ SetResult(c, Res(0, TRUE))
    /\ Goto(c, "patch")
    /\ UNCHANGED <<claim, db, job, inst, before, dbres, dbobj, stale, log,
                   lastRes, taint, envSteps>>

\* Mutant: every failed resolution is answered with the requeue.
NoDatabaseRequeuesAll(c) ==
    /\ pc[c] = "resolved"
    /\ ~inst[c].del
    /\ dbres[c] \notin Variants
    /\ SetResult(c, Res(RequeueDependency, FALSE))
    /\ Goto(c, "patch")
    /\ UNCHANGED <<claim, db, job, inst, before, dbres, dbobj, stale, log,
                   lastRes, taint, envSteps>>

NoDatabase(c) ==
    /\ pc[c] = "resolved"
    /\ ~inst[c].del
    /\ dbres[c] \notin Variants
    /\ SetResult(c, IF dbres[c] = "NotFound" THEN Res(RequeueDependency, FALSE)
                                               ELSE Res(0, TRUE))
    /\ Goto(c, "patch")
    /\ UNCHANGED <<claim, db, job, inst, before, dbres, dbobj, stale, log,
                   lastRes, taint, envSteps>>

(***************************************************************************)
(* Attach the finalizers, lines 139-152                                    *)
(***************************************************************************)
AttachDb(c) ==
    /\ pc[c] = "resolved"
    /\ ~inst[c].del
    /\ dbres[c] \in Variants
    /\ IF ~ContainsFinalizer(dbobj[c].fins, Token(c))
       THEN /\ dbobj' = [dbobj EXCEPT ![c].fins = AddFinalizer(@, Token(c))]
            /\ Goto(c, "attUpdate")
       ELSE /\ Goto(c, "attOwn")
            /\ UNCHANGED dbobj
    /\ UNCHANGED <<claim, db, job, inst, before, dbres, stale, result, log,
                   lastRes, taint, envSteps>>

AttachUpdate(c) ==
    /\ pc[c] = "attUpdate"
    /\ \/ UpdateOk(c) /\ Goto(c, "attOwn") /\ UNCHANGED <<inst, result>>
       \/ UpdateFails(c)
    /\ UNCHANGED <<claim, job, before, dbres, dbobj, envSteps>>

\* Mutant: no early return after adding the claim's own finalizer.
AttachOwnContinue(c) ==
    /\ pc[c] = "attOwn"
    /\ inst' = [inst EXCEPT ![c].fins = AddFinalizer(@, GetFinalizer)]
    /\ Goto(c, "ready")
    /\ UNCHANGED <<claim, db, job, before, dbres, dbobj, stale, result, log, lastRes,
                   taint, envSteps>>

\* Mutant: the invocation returns here whether or not the finalizer was added.
AttachOwnAlwaysReturns(c) ==
    /\ pc[c] = "attOwn"
    /\ inst' = [inst EXCEPT ![c].fins = AddFinalizer(@, GetFinalizer)]
    /\ SetResult(c, Res(0, FALSE))
    /\ Goto(c, "patch")
    /\ UNCHANGED <<claim, db, job, before, dbres, dbobj, stale, log, lastRes,
                   taint, envSteps>>

AttachOwn(c) ==
    /\ pc[c] = "attOwn"
    /\ IF ~ContainsFinalizer(inst[c].fins, GetFinalizer)
       THEN /\ inst' = [inst EXCEPT ![c].fins = AddFinalizer(@, GetFinalizer)]
            /\ SetResult(c, Res(0, FALSE))     \* persist this right away
            /\ Goto(c, "patch")
       ELSE /\ Goto(c, "ready")
            /\ UNCHANGED <<inst, result>>
    /\ UNCHANGED <<claim, db, job, before, dbres, dbobj, stale, log, lastRes,
                   taint, envSteps>>

(***************************************************************************)
(* Readiness of the backing store, lines 157-178                           *)
(***************************************************************************)
\* Mutant: readiness of the backing store is not checked.
CheckReadySkip(c) ==
    /\ pc[c] = "ready"
    /\ Goto(c, "doJob")
    /\ UNCHANGED <<claim, db, job, inst, before, dbres, dbobj, stale, result, log,
                   lastRes, taint, envSteps>>

CheckReady(c) ==
    /\ pc[c] = "ready"
    /\ IF ~IsReady(dbres[c], dbobj[c])
       THEN /\ SetResult(c, Res(RequeueDependency, FALSE))
            /\ Goto(c, "patch")
       ELSE /\ Goto(c, "doJob")
            /\ UNCHANGED result
    /\ UNCHANGED <<claim, db, job, inst, before, dbres, dbobj, stale, log,
                   lastRes, taint, envSteps>>

(***************************************************************************)
(* The job executor (job.NewJob(...).DoJob): run the action when the hash  *)
(* of its payload differs from the recorded one.                           *)
(***************************************************************************)
JobOutcome(j, payload, lastKnownHash) ==
    LET h == Hash(payload) IN
    IF h = lastKnownHash
    THEN [kind |-> "done", changed |-> FALSE, hash |-> h, job |-> j, created |-> FALSE]
    ELSE CASE j.state = "none" ->
                [kind |-> "requeue", changed |-> TRUE, hash |-> h,
                 job |-> [state |-> "running", hash |-> h], created |-> TRUE]
           [] j.state = "running" ->
                [kind |-> "requeue", changed |-> TRUE, hash |-> h, job |-> j,
                 created |-> FALSE]
           [] j.state = "failed" ->
                [kind |-> "error", changed |-> TRUE, hash |-> h, job |-> j,
                 created |-> FALSE]
           [] j.state = "succeeded" ->
                [kind |-> "done", changed |-> TRUE, hash |-> h, job |-> NoJob,
                 created |-> FALSE]

(***************************************************************************)
(* Provisioning, lines 180-216                                             *)
(***************************************************************************)
\* Mutant: the recorded hash is not handed to the executor.
LastKnownHashEmpty(i) == NoHash

LastKnownHash(i) == i.hash

\* Mutant: completion is not recorded.
CompletedNotSet(i, o) == [i EXCEPT !.hash = IF o.changed THEN o.hash ELSE @]

\* Mutant: the new hash is not recorded on completion.
CompletedNoHash(i, o) == [i EXCEPT !.completed = TRUE]

Completed(i, o) ==
    [i EXCEPT !.hash = IF o.changed THEN o.hash ELSE @, !.completed = TRUE]

\* Mutant: the hash is recorded as soon as the executor has been called.
DoJobRecordsInFlight(c) ==
    /\ pc[c] = "doJob"
    /\ LET o == JobOutcome(job[c], dbobj[c].spec, LastKnownHash(inst[c])) IN
       /\ job' = [job EXCEPT ![c] = o.job]
       /\ log' = [log EXCEPT ![c] =
                     IF o.created THEN Append(Append(@, "DoJob"), "Create")
                                  ELSE Append(@, "DoJob")]
       /\ inst' = [inst EXCEPT ![c].hash = o.hash,
                               ![c].completed = (o.kind = "done") \/ @]
       /\ SetResult(c, CASE o.kind = "requeue" -> Res(RequeueJob, FALSE)
                         [] o.kind = "error" -> Res(0, TRUE)
                         [] o.kind = "done" -> Res(0, FALSE))
    /\ Goto(c, "patch")
    /\ UNCHANGED <<claim, db, before, dbres, dbobj, stale, lastRes, taint, envSteps>>

DoJob(c) ==
    /\ pc[c] = "doJob"
    /\ LET o == JobOutcome(job[c], dbobj[c].spec, LastKnownHash(inst[c])) IN
       /\ job' = [job EXCEPT ![c] = o.job]
       /\ log' = [log EXCEPT ![c] =
                     IF o.created THEN Append(Append(@, "DoJob"), "Create")
                                  ELSE Append(@, "DoJob")]
       /\ CASE o.kind = "requeue" ->
                 /\ SetResult(c, Res(RequeueJob, FALSE))
                 /\ UNCHANGED inst
            [] o.kind = "error" ->
                 /\ SetResult(c, Res(0, TRUE))
                 /\ UNCHANGED inst
            [] o.kind = "done" ->
                 /\ inst' = [inst EXCEPT ![c] = Completed(@, o)]
                 /\ SetResult(c, Res(0, FALSE))
    /\ Goto(c, "patch")
    /\ UNCHANGED <<claim, db, before, dbres, dbobj, stale, lastRes, taint, envSteps>>

(***************************************************************************)
(* The deferred helper.PatchInstance, lines 98-105: a merge patch of what  *)
(* changed since the snapshot; an object that is gone is not an error.     *)
(***************************************************************************)
MetadataChanged(c) == inst[c].fins # before[c].fins

StatusChanged(c) ==
    inst[c].hash # before[c].hash \/ inst[c].completed # before[c].completed

Patched(c) ==
    LET o == [claim[c] EXCEPT
                !.fins = IF MetadataChanged(c) THEN inst[c].fins ELSE @,
                !.hash = IF StatusChanged(c) THEN inst[c].hash ELSE @,
                !.completed = IF StatusChanged(c) THEN inst[c].completed ELSE @]
    IN  IF o.del /\ o.fins = {} THEN GoneClaim ELSE o

PatchInstance(c) ==
    /\ pc[c] = "patch"
    /\ \/ /\ claim[c].exists /\ (MetadataChanged(c) \/ StatusChanged(c))
          /\ claim' = [claim EXCEPT ![c] = Patched(c)]
          /\ UNCHANGED <<result, taint, lastRes>>
       \/ /\ claim[c].exists /\ (MetadataChanged(c) \/ StatusChanged(c))
          /\ result' = [result EXCEPT ![c].err = TRUE]     \* _err = err
          /\ Fault(c)
          /\ UNCHANGED claim
       \/ /\ ~(claim[c].exists /\ (MetadataChanged(c) \/ StatusChanged(c)))
          /\ UNCHANGED <<claim, result, taint, lastRes>>
    /\ Append1(c, "PatchInstance")
    /\ Goto(c, "done")
    /\ UNCHANGED <<db, job, inst, before, dbres, dbobj, stale, envSteps>>

(***************************************************************************)
(* The invocation returns to the caller.                                   *)
(***************************************************************************)
AddedOwn(c) == ~inst[c].del /\ inst[c].fins # before[c].fins

Return(c) ==
    /\ pc[c] = "done"
    /\ lastRes' = [lastRes EXCEPT ![c] =
                      IF taint[c] THEN NoRes
                      ELSE [requeue |-> result[c].requeue, err |-> result[c].err,
                            none |-> FALSE, added |-> AddedOwn(c)]]
    /\ taint' = [taint EXCEPT ![c] = FALSE]
    /\ Goto(c, "idle")
    /\ inst' = [inst EXCEPT ![c] = NoInst]
    /\ before' = [before EXCEPT ![c] = NoInst]
    /\ dbres' = [dbres EXCEPT ![c] = "none"]
    /\ dbobj' = [dbobj EXCEPT ![c] = NoDb]
    /\ stale' = [stale EXCEPT ![c] = FALSE]
    /\ result' = [result EXCEPT ![c] = Res(0, FALSE)]
    /\ log' = [log EXCEPT ![c] = <<>>]
    /\ UNCHANGED <<claim, db, job, envSteps>>

(***************************************************************************)
(* The environment: whoever else uses the object store.                    *)
(***************************************************************************)
EnvStep ==
    /\ envSteps < MaxEnv
    /\ envSteps' = envSteps + 1
    /\ Disturb(Claims)

RequestDelete(c) ==
    /\ claim[c].exists /\ ~claim[c].del
    /\ claim' = [claim EXCEPT ![c] =
                    IF @.fins = {} THEN GoneClaim ELSE [@ EXCEPT !.del = TRUE]]
    /\ EnvStep
    /\ UNCHANGED <<db, job, pc, inst, before, dbres, dbobj, stale, result, log>>

CreateDb(v) ==
    /\ ~db[v].exists
    /\ \E p \in Payloads :
          WriteDb(v, [exists |-> TRUE, fins |-> {}, status |-> NotReadyStatus(v),
                      spec |-> p], "env")
    /\ EnvStep
    /\ UNCHANGED <<claim, job, pc, inst, before, dbres, dbobj, result, log>>

RemoveDb(v) ==
    /\ db[v].exists /\ db[v].fins = {}
    /\ WriteDb(v, NoDb, "env")
    /\ EnvStep
    /\ UNCHANGED <<claim, job, pc, inst, before, dbres, dbobj, result, log>>

BecomeReady(v) ==
    /\ db[v].exists /\ ~IsReady(v, db[v])
    /\ WriteDb(v, [db[v] EXCEPT !.status = ReadyStatus(v)], "env")
    /\ EnvStep
    /\ UNCHANGED <<claim, job, pc, inst, before, dbres, dbobj, result, log>>

ChangeSpec(v) ==
    /\ db[v].exists
    /\ \E p \in Payloads \ {db[v].spec} :
          WriteDb(v, [db[v] EXCEPT !.spec = p], "env")
    /\ EnvStep
    /\ UNCHANGED <<claim, job, pc, inst, before, dbres, dbobj, result, log>>

JobFinish(c) ==
    /\ job[c].state = "running"
    /\ \E s \in {"succeeded", "failed"} : job' = [job EXCEPT ![c].state = s]
    /\ Disturb({c})
    /\ UNCHANGED <<claim, db, pc, inst, before, dbres, dbobj, stale, result, log,
                   envSteps>>

Reconcile(c) ==
    \/ Fetch(c)
    \/ GetGalera(c)
    \/ GetMariadb(c)
    \/ DeleteDetach(c)
    \/ DeleteUpdate(c)
    \/ NoDatabase(c)
    \/ AttachDb(c)
    \/ AttachUpdate(c)
    \/ AttachOwn(c)
    \/ CheckReady(c)
    \/ DoJob(c)
    \/ PatchInstance(c)
    \/ Return(c)

Environment ==
    \/ \E c \in Claims : RequestDelete(c)
    \/ \E c \in Claims : JobFinish(c)
    \/ \E v \in Variants : CreateDb(v)
    \/ \E v \in Variants : RemoveDb(v)
    \/ \E v \in Variants : BecomeReady(v)
    \/ \E v \in Variants : ChangeSpec(v)

Next == (\E c \in Claims : Reconcile(c)) \/ Environment

Spec == Init /\ [][Next]_vars

(***************************************************************************)
(* Fair runs: the claim is reconciled again and again, and a running job   *)
(* finishes.                                                               *)
(***************************************************************************)
Fairness(c) == WF_vars(Reconcile(c)) /\ WF_vars(JobFinish(c))

SpecLive == Init /\ [][Next]_vars /\ \A c \in Claims : Fairness(c)

\* Two claims on one backing store whose own state is left alone.
NextTwo ==
    \/ \E c \in Claims : Reconcile(c)
    \/ \E c \in Claims : RequestDelete(c)
    \/ \E c \in Claims : JobFinish(c)

SpecTwo == InitTwo /\ [][NextTwo]_vars

(***************************************************************************)
(* Properties                                                              *)
(***************************************************************************)
OnDb(c) == \E v \in Variants : ContainsFinalizer(db[v].fins, Token(c))

\* The invocation of c has returned after fetching the claim.
Ran(c) == pc[c] = "done" /\ Len(log[c]) > 1

InLog(c, op) == \E i \in 1..Len(log[c]) : log[c][i] = op

\* The invocation found the deletion marker and its removal of the claim's
\* own finalizer has been persisted: the claim has left the store.
DeletionCompleted(c) == Ran(c) /\ inst[c].del /\ ~claim[c].exists

\* C1: finalizer safety: once a claim has completed its deletion protocol its
\* token is on no backing-store object (equivalently, a token on a backing-store
\* object means the protocol has not completed) and its own token is gone.
C1_FinalizerSafety ==
    \A c \in Claims : DeletionCompleted(c) => ~OnDb(c) /\ claim[c].fins = {}

\* A deletion invocation whose backing store resolved never runs the executor
\* and, with no failure and no outside write during it, returns an empty
\* result with the claim released and the token off the resolved object.
C2_Return ==
    \A c \in Claims :
        Ran(c) /\ inst[c].del /\ dbres[c] \in Variants =>
            /\ ~InLog(c, "DoJob")
            /\ ~taint[c] =>
                 /\ result[c] = Res(0, FALSE)
                 /\ ~claim[c].exists
                 /\ ~ContainsFinalizer(db[dbres[c]].fins, Token(c))

\* The step that persists the removal of the claim's own finalizer finds the
\* token already off the resolved object.
C2_Order ==
    \A c \in Claims :
        (/\ inst[c].del /\ dbres[c] \in Variants
         /\ claim[c].fins # {} /\ claim'[c].fins = {}) =>
            ~ContainsFinalizer(db[dbres[c]].fins, Token(c))

\* C2: on the deletion path with a resolved backing store, the removal of the
\* claim's token from the backing store is persisted before the removal of the
\* claim's own finalizer is; the invocation returns an empty successful result
\* and the executor is not invoked.
C2_DeletionOrdering == [](C2_Return) /\ [][C2_Order]_vars

C2_Witness ==
    \E c \in Claims :
        /\ DeletionCompleted(c) /\ dbres[c] \in Variants /\ ~taint[c]
        /\ log[c] = <<"Get", "GetGalera", "Update", "PatchInstance">>

\* C3: whenever the job executor is about to be invoked, the claim's token is
\* on the stored backing-store object and the claim's own finalizer is on the
\* stored claim.
C3_AttachedBeforeJob ==
    \A c \in Claims :
        pc[c] = "doJob" =>
            /\ db[dbres[c]].exists
            /\ ContainsFinalizer(db[dbres[c]].fins, Token(c))
            /\ claim[c].exists
            /\ ContainsFinalizer(claim[c].fins, GetFinalizer)

C3_Witness == \E c \in Claims : pc[c] = "doJob" /\ job[c].state = "none"

\* C4: the token of a claim that is no longer in the store is on no
\* backing-store object.
C4_NoTokenLeak == \A c \in Claims : ~claim[c].exists => ~OnDb(c)

\* C5: on the deletion path the claim's own finalizer is removed only when the
\* backing store resolved or resolution ended in NotFound.
C5_DetachSkippedOnlyWhenGone ==
    \A c \in Claims :
        (/\ pc[c] \in {"patch", "done"} /\ inst[c].del
         /\ ~ContainsFinalizer(inst[c].fins, GetFinalizer)) =>
            dbres[c] # "Error"

\* A claim whose own finalizer is persisted and that is not marked for
\* deletion has its token on the backing store.
C6_Attached ==
    \A c \in Claims :
        claim[c].exists /\ claim[c].fins # {} /\ ~claim[c].del => OnDb(c)

\* A token leaves (joins) a backing-store object only in the detach (attach)
\* update of the claim it names.
C6_OwnTokenOnly ==
    \A c \in Claims : \A v \in Variants :
        /\ (ContainsFinalizer(db[v].fins, Token(c))
            /\ ~ContainsFinalizer(db'[v].fins, Token(c))) => pc[c] = "delUpdate"
        /\ (~ContainsFinalizer(db[v].fins, Token(c))
            /\ ContainsFinalizer(db'[v].fins, Token(c))) => pc[c] = "attUpdate"

\* C6: under every interleaving of the Reconciles of two claims on one backing
\* store, each claim that has returned from a successful attach has its token
\* on the backing store, and the detach of one claim never removes the token
\* of the other.
C6_ConcurrentClaims == [](C6_Attached) /\ [][C6_OwnTokenOnly]_vars

C6_Witness ==
    \E c \in Claims : \E d \in Claims \ {c} :
        /\ Ran(c) /\ inst[c].del /\ InLog(c, "Update") /\ ~OnDb(c)
        /\ Ran(d) /\ AddedOwn(d) /\ InLog(d, "Update")
        /\ claim[d].fins # {} /\ OnDb(d)

\* An invocation on the active path whose backing store resolved ready and
\* during which nothing failed and nobody else wrote the store.
ReadyRun(c) ==
    /\ Ran(c) /\ ~taint[c] /\ ~inst[c].del
    /\ dbres[c] \in Variants /\ IsReady(dbres[c], dbobj[c])

Attached(c) ==
    /\ ContainsFinalizer(db[dbres[c]].fins, Token(c))
    /\ ContainsFinalizer(claim[c].fins, GetFinalizer)

\* C7 as stated: the first Reconcile of a claim without tokens or status on a
\* ready backing store attaches both tokens, dispatches DbCreate and returns
\* the job's requeue delay.
C7_FirstRunDispatches ==
    \A c \in Claims :
        ReadyRun(c) /\ before[c] = NoInst =>
            /\ Attached(c)
            /\ InLog(c, "Create")
            /\ result[c] = Res(RequeueJob, FALSE)

\* What an undisturbed Reconcile of a claim without status has done when it
\* returns, by the claim's own finalizer at fetch and the state of the job.
C7_Stages ==
    \A c \in Claims :
        ReadyRun(c) /\ before[c].hash = NoHash /\ ~before[c].completed =>
            IF before[c].fins = {}
            THEN /\ Attached(c)
                 /\ ~InLog(c, "DoJob")
                 /\ result[c] = Res(0, FALSE)
                 /\ claim[c].hash = NoHash /\ ~claim[c].completed
            ELSE /\ InLog(c, "DoJob")
                 /\ InLog(c, "Create") => job[c].state = "running"
                 /\ job[c].state = "running" =>
                        /\ result[c] = Res(RequeueJob, FALSE)
                        /\ claim[c].hash = NoHash /\ ~claim[c].completed
                 /\ job[c].state = "none" =>
                        /\ result[c] = Res(0, FALSE)
                        /\ claim[c].hash = Hash(dbobj[c].spec)
                        /\ claim[c].completed
                 /\ job[c].state # "succeeded"

\* The executor step for a claim without recorded hash: no job yet, one is
\* created; job succeeded, the hash is recorded and completed set.
C7_Dispatch ==
    \A c \in Claims :
        pc[c] = "doJob" /\ pc'[c] = "patch" /\ inst[c].hash = NoHash =>
            /\ job[c].state = "none" =>
                   job'[c].state = "running" /\ InLog(c, "Create")'
            /\ job[c].state = "succeeded" =>
                   inst'[c].hash = Hash(dbobj[c].spec) /\ inst'[c].completed

\* C7 amended: the first Reconcile attaches both tokens and returns an empty
\* result without invoking the executor; a Reconcile of the claim with its
\* token and no status invokes the executor, which dispatches DbCreate when no
\* job exists and requeues while it runs; once the job has succeeded the
\* Reconcile records the DbCreate hash and sets completed.
C7_ScenarioC == [](C7_Stages) /\ [][C7_Dispatch]_vars

C7_Witness ==
    \E c \in Claims :
        /\ ReadyRun(c) /\ before[c].fins # {} /\ before[c].hash = NoHash
        /\ job[c].state = "none" /\ result[c] = Res(0, FALSE)
        /\ claim[c].hash = "h1" /\ claim[c].completed

\* An invocation on the active path that resolved a Galera object that is not
\* bootstrapped, during which nothing failed and nobody else wrote the store.
UnbootstrappedRun(c) ==
    /\ Ran(c) /\ ~taint[c] /\ ~inst[c].del
    /\ dbres[c] = "Galera" /\ ~IsReady("Galera", dbobj[c])

\* C8 as stated: with an unbootstrapped Galera and no deletion marker,
\* Reconcile attaches the finalizers, returns requeueAfter=10s and dispatches
\* no job.
C8_NotReadyRequeues ==
    \A c \in Claims :
        UnbootstrappedRun(c) =>
            /\ Attached(c)
            /\ ~InLog(c, "DoJob")
            /\ result[c] = Res(RequeueDependency, FALSE)

\* C8 amended: such a Reconcile leaves both finalizers attached and invokes
\* no executor; it returns requeueAfter=10s when the claim already carried its
\* own finalizer at fetch, and an empty result when it has just added it.
C8_ScenarioB ==
    \A c \in Claims :
        UnbootstrappedRun(c) =>
            /\ Attached(c)
            /\ ~InLog(c, "DoJob")
            /\ result[c] = IF before[c].fins = {} THEN Res(0, FALSE)
                           ELSE Res(RequeueDependency, FALSE)

C8_Witness ==
    \E c \in Claims :
        /\ UnbootstrappedRun(c) /\ before[c].fins # {}
        /\ result[c] = Res(RequeueDependency, FALSE)

\* Such an invocation returns requeueAfter=10s and no error, makes no update
\* and no executor call and has nothing to patch.
C9_Returns ==
    \A c \in Claims :
        Ran(c) /\ ~inst[c].del /\ dbres[c] = "NotFound" =>
            /\ result[c] = Res(RequeueDependency, FALSE)
            /\ log[c] = <<"Get", "GetGalera", "GetMariadb", "PatchInstance">>
            /\ inst[c] = before[c]

\* None of its steps changes the stored claim, a backing-store object or a job.
C9_Frame ==
    \A c \in Claims :
        pc'[c] # pc[c] /\ ~inst[c].del /\ dbres[c] = "NotFound" =>
            claim' = claim /\ db' = db /\ job' = job

\* C9: a Reconcile of a claim without deletion marker whose backing store is
\* found under neither variant returns requeueAfter=10s and no error, and
\* leaves the finalizers of the claim and of every backing-store object, the
\* status hash map and the completed flag unchanged and dispatches no job.
C9_ScenarioA == [](C9_Returns) /\ [][C9_Frame]_vars

C9_Witness ==
    \E c \in Claims :
        /\ Ran(c) /\ ~inst[c].del /\ dbres[c] = "NotFound"
        /\ claim[c].exists /\ ~db["Galera"].exists /\ ~db["MariaDB"].exists

\* The invocation that has returned and the one before it ran back to back
\* with no failure and no outside write during or between them.
BackToBack(c) == pc[c] = "done" /\ ~taint[c] /\ ~lastRes[c].none

SameAsLast(c) ==
    /\ result[c].requeue = lastRes[c].requeue
    /\ result[c].err = lastRes[c].err
    /\ ~InLog(c, "Create")

\* C10 as stated: the second of two back-to-back Reconciles returns what the
\* first returned and dispatches no job.
C10_Idempotent == \A c \in Claims : BackToBack(c) => SameAsLast(c)

\* C10 amended: this holds unless the first of the two has just added the
\* claim's own finalizer (it returns an empty result at once, and the second
\* goes on to the readiness check and the executor).
C10_IdempotentOnceAttached ==
    \A c \in Claims : BackToBack(c) /\ ~lastRes[c].added => SameAsLast(c)

C10_Witness ==
    \E c \in Claims :
        /\ BackToBack(c) /\ ~lastRes[c].added /\ InLog(c, "DoJob")
        /\ result[c] = Res(RequeueJob, FALSE)

\* What the executor answers to the call the invocation of c is about to make.
Outcome(c) == JobOutcome(job[c], dbobj[c].spec, inst[c].hash)

ExecutorStep(c) == pc[c] = "doJob" /\ pc'[c] = "patch"

\* In the executor step the DbCreate entry of instance.Status.Hash changes
\* exactly when the executor answers done with changed, and then to its hash;
\* no other step of the invocation touches it.
C11_InMemory ==
    \A c \in Claims :
        IF ExecutorStep(c)
        THEN /\ (inst'[c].hash # inst[c].hash) <=>
                    (Outcome(c).kind = "done" /\ Outcome(c).changed)
             /\ inst'[c].hash # inst[c].hash => inst'[c].hash = Outcome(c).hash
        ELSE pc[c] \notin {"idle", "done"} => inst'[c].hash = inst[c].hash

\* The stored entry changes only in the patch of an invocation whose executor
\* changed it, and to that value.
C11_Stored ==
    \A c \in Claims :
        claim'[c].exists /\ claim'[c].hash # claim[c].hash =>
            /\ pc[c] = "patch" /\ InLog(c, "DoJob")
            /\ inst[c].hash # before[c].hash
            /\ claim'[c].hash = inst[c].hash

\* C11: the DbCreate entry of the status hash map changes in an invocation if
\* and only if the executor returned done with changed=true in it, and is then
\* set to the executor's hash; it is not modified when the executor reports
\* in-flight, error or done unchanged, nor on a path that returns before it.
C11_HashGating == [][C11_InMemory /\ C11_Stored]_vars

C11_Witness ==
    \E c \in Claims :
        /\ Ran(c) /\ InLog(c, "DoJob") /\ before[c].hash = "h1"
        /\ inst[c].hash = "h2" /\ claim[c].hash = "h2"

\* The executor reported the terminal failure of the job in the invocation of
\* c that has returned.
ExecutorFailed(c) ==
    /\ Ran(c) /\ InLog(c, "DoJob") /\ ~taint[c]
    /\ job[c].state = "failed" /\ Hash(dbobj[c].spec) # before[c].hash

\* C12: after an invocation in which the executor reported terminal failure,
\* Reconcile has returned an error, the persisted status has completed=false
\* and the hash map holds no hash for the failed attempt, whatever invocations
\* came before.
C12_FailureLeavesIncomplete ==
    \A c \in Claims :
        ExecutorFailed(c) =>
            /\ result[c] = Res(0, TRUE)
            /\ ~claim[c].completed
            /\ claim[c].hash # Hash(dbobj[c].spec)

Count(c, op) == Cardinality({i \in 1..Len(log[c]) : log[c][i] = op})

C14_GaleraLookup ==
    \A c \in Claims :
        pc[c] = "getGalera" /\ pc'[c] # "getGalera" =>
            \/ dbres'[c] = "Error" /\ pc'[c] = "resolved"
            \/ /\ db["Galera"].exists
               /\ dbres'[c] = "Galera" /\ dbobj'[c] = db["Galera"]
               /\ pc'[c] = "resolved"
            \/ ~db["Galera"].exists /\ pc'[c] = "getMariadb"

\* The MariaDB object is returned only by a MariaDB lookup that succeeds, and
\* that lookup is made only after the Galera lookup said NotFound.
C14_MariadbLookup ==
    \A c \in Claims :
        /\ pc'[c] = "getMariadb" /\ pc[c] # "getMariadb" =>
               pc[c] = "getGalera" /\ ~db["Galera"].exists /\ dbres'[c] # "Error"
        /\ dbres'[c] = "MariaDB" /\ dbres[c] # "MariaDB" =>
               /\ pc[c] = "getMariadb" /\ db["MariaDB"].exists
               /\ dbobj'[c] = db["MariaDB"]

C14_OneVariant ==
    \A c \in Claims :
        pc[c] = "resolved" =>
            /\ dbres[c] = "Galera" => log[c] = <<"Get", "GetGalera">>
            /\ dbres[c] = "MariaDB" => log[c] = <<"Get", "GetGalera", "GetMariadb">>
            /\ dbres[c] \in Variants => dbobj[c].exists
            /\ dbres[c] \in Variants \cup {"NotFound", "Error"}

\* C14: getDatabaseObject returns the Galera object whenever the Galera lookup
\* succeeds, ready or not, and the MariaDB object only when the Galera lookup
\* said NotFound and the MariaDB lookup succeeded; a successful result names
\* exactly one of the two variants.
C14_ResolverPriority ==
    [](C14_OneVariant) /\ [][C14_GaleraLookup /\ C14_MariadbLookup]_vars

C14_Witness ==
    \E c \in Claims :
        /\ pc[c] = "resolved" /\ dbres[c] = "Galera"
        /\ db["MariaDB"].exists /\ ~IsReady("Galera", dbobj[c])

\* A Galera lookup that fails otherwise than NotFound ends the resolution.
C15_NoFallThrough ==
    \A c \in Claims :
        pc[c] = "getGalera" /\ dbres'[c] = "Error" =>
            pc'[c] = "resolved" /\ log'[c] = <<"Get", "GetGalera">>

C15_Returns ==
    \A c \in Claims :
        Ran(c) /\ ~before[c].del /\ dbres[c] \notin Variants =>
            /\ dbres[c] = "NotFound" => result[c] = Res(RequeueDependency, FALSE)
            /\ dbres[c] = "Error" =>
                   /\ result[c] = Res(0, TRUE)
                   /\ inst[c] = before[c]
                   /\ ~InLog(c, "Update") /\ ~InLog(c, "UpdateFailed")
                   /\ ~InLog(c, "DoJob")

\* C15: a Galera lookup failure other than NotFound is returned without a
\* MariaDB lookup; off the deletion path Reconcile answers requeueAfter=10s
\* and no error exactly when the resolution ended in NotFound, and returns the
\* error, with no requeue delay, no finalizer change and no job dispatch, when
\* it ended in any other failure.
C15_ResolverErrors == [](C15_Returns) /\ [][C15_NoFallThrough]_vars

C15_Witness ==
    \E c \in Claims :
        /\ Ran(c) /\ ~before[c].del /\ dbres[c] = "Error"
        /\ log[c] = <<"Get", "GetGalera", "PatchInstance">>
        /\ db["MariaDB"].exists

\* What the executor does in its step, by the recorded hash and the job.
C17_Executor ==
    \A c \in Claims :
        ExecutorStep(c) =>
            LET h == Hash(dbobj[c].spec) IN
            /\ inst[c].hash = h =>
                   /\ job'[c] = job[c] /\ log'[c] = Append(log[c], "DoJob")
                   /\ result'[c] = Res(0, FALSE) /\ inst'[c].hash = h
            /\ job[c].state = "running" =>
                   job'[c] = job[c] /\ log'[c] = Append(log[c], "DoJob")
            /\ inst[c].hash # h /\ job[c].state = "succeeded" =>
                   inst'[c].hash = h /\ inst'[c].hash # inst[c].hash

\* A job starts to run only in an executor step that found none, for a
\* payload whose hash is not the recorded one.
C17_OneJob ==
    \A c \in Claims :
        job'[c].state = "running" /\ job[c].state # "running" =>
            /\ ExecutorStep(c) /\ job[c].state = "none"
            /\ inst[c].hash # Hash(dbobj[c].spec)
            /\ job'[c].hash = Hash(dbobj[c].spec)

C17_Distinct == \A p, q \in Payloads : p # q => Hash(p) # Hash(q)

\* C17: once the recorded DbCreate hash is the hash of the current payload
\* the executor reports done unchanged and creates no job; while a job is in
\* flight no second one is created; when the payload changes, the run that
\* completes reports changed with a new hash distinct from the prior one.
C17_HashGatedDispatch == [](C17_Distinct) /\ [][C17_Executor /\ C17_OneJob]_vars

C17_Witness ==
    \E c \in Claims :
        /\ Ran(c) /\ InLog(c, "DoJob") /\ ~InLog(c, "Create")
        /\ before[c].hash = "h2" /\ dbobj[c].spec = "p2"
        /\ job[c].state = "none" /\ result[c] = Res(0, FALSE)

\* The step after the backing-store token has been seen to.
C19_Step ==
    \A c \in Claims :
        pc[c] = "attOwn" /\ pc'[c] # "attOwn" =>
            IF ~ContainsFinalizer(inst[c].fins, GetFinalizer)
            THEN /\ pc'[c] = "patch" /\ result'[c] = Res(0, FALSE)
                 /\ inst'[c] = [inst[c] EXCEPT !.fins = @ \cup {GetFinalizer}]
            ELSE pc'[c] = "ready" /\ inst'[c] = inst[c]

C19_Returned ==
    \A c \in Claims :
        Ran(c) /\ ~before[c].del /\ dbres[c] \in Variants
               /\ ~InLog(c, "UpdateFailed") =>
            IF ~ContainsFinalizer(before[c].fins, GetFinalizer)
            THEN /\ ContainsFinalizer(inst[c].fins, GetFinalizer)
                 /\ ~InLog(c, "DoJob") /\ result[c].requeue = 0
                 /\ inst[c].hash = before[c].hash
                 /\ inst[c].completed = before[c].completed
                 /\ ~taint[c] =>
                        result[c] = Res(0, FALSE) /\ claim[c].fins = inst[c].fins
            ELSE IF IsReady(dbres[c], dbobj[c])
                 THEN InLog(c, "DoJob")
                 ELSE result[c].requeue = RequeueDependency /\ ~InLog(c, "DoJob")

\* C19: off the deletion path, with the backing store resolved and the
\* claim's own token absent at fetch, Reconcile adds the token and returns an
\* empty successful result at once, with no readiness check, no executor call
\* and no change to the status hash or the completed flag; with the token
\* present at fetch the invocation goes on to the readiness check.
C19_EarlyReturn == [](C19_Returned) /\ [][C19_Step]_vars

C19_Witness ==
    \E c \in Claims :
        /\ Ran(c) /\ ~before[c].del /\ dbres[c] \in Variants /\ ~taint[c]
        /\ ~ContainsFinalizer(before[c].fins, GetFinalizer)
        /\ ContainsFinalizer(claim[c].fins, GetFinalizer)
        /\ ~IsReady(dbres[c], dbobj[c]) /\ result[c] = Res(0, FALSE)

\* The step in which r.Update returns an error.
C20_Step ==
    \A c \in Claims :
        /\ log'[c] = Append(log[c], "UpdateFailed") =>
               /\ pc[c] \in {"attUpdate", "delUpdate"}
               /\ pc'[c] = "patch" /\ result'[c] = Res(0, TRUE)
               /\ inst'[c] = inst[c] /\ db' = db /\ job' = job
        /\ log'[c] = Append(log[c], "Update") =>
               pc[c] \in {"attUpdate", "delUpdate"}

C20_Returned ==
    \A c \in Claims :
        /\ Ran(c) /\ InLog(c, "UpdateFailed") =>
               /\ result[c] = Res(0, TRUE)
               /\ inst[c].fins = before[c].fins
               /\ claim[c].exists => claim[c].fins = before[c].fins
               /\ ~InLog(c, "DoJob") /\ ~InLog(c, "Update")
        /\ pc[c] \in {"attUpdate", "delUpdate"} /\ ~Conflict(c) =>
               db[dbres[c]].fins # dbobj[c].fins
        /\ pc[c] = "attUpdate" => ContainsFinalizer(dbobj[c].fins, Token(c))
        /\ pc[c] = "delUpdate" => ~ContainsFinalizer(dbobj[c].fins, Token(c))

\* C20: when persisting the attach or the detach of the claim's token on the
\* backing store fails, Reconcile returns that error with no requeue delay,
\* the claim's own token set as it was at fetch and no job dispatched; the
\* update is attempted only when the token set of the object changed.
C20_FailedUpdateAborts == [](C20_Returned) /\ [][C20_Step]_vars

C20_Witness ==
    \E c \in Claims :
        /\ Ran(c) /\ InLog(c, "UpdateFailed") /\ before[c].del
        /\ claim[c].exists /\ claim[c].fins = {GetFinalizer} /\ OnDb(c)

Released(c) == ~claim[c].exists \/ ~ContainsFinalizer(claim[c].fins, GetFinalizer)

\* A deletion invocation that has returned has either released the claim or
\* returned an error, after which it is run again.
C16_Returned ==
    \A c \in Claims :
        Ran(c) /\ before[c].del => Released(c) \/ result[c].err

\* From some point on no store call of an invocation of c fails.
WritesSucceed(c) == <>[](~taint[c])

C16_Live ==
    \A c \in Claims :
        WritesSucceed(c) => ((claim[c].exists /\ claim[c].del) ~> Released(c))

\* C16: a claim whose deletion marker is set is released in the end (its own
\* token removed) when it is reconciled again after every error and store
\* writes succeed in the end, whatever the backing store and the job are, also
\* after an invocation that persisted the detach and failed before persisting
\* the removal of the own token.
C16_DeletionCompletes == [](C16_Returned) /\ C16_Live

C16_Witness ==
    \E c \in Claims :
        /\ Ran(c) /\ before[c].del /\ InLog(c, "Update") /\ result[c].err
        /\ claim[c].exists /\ ContainsFinalizer(claim[c].fins, GetFinalizer)
        /\ ~OnDb(c)

\* The backing store the resolver finds is ready.
DbReady ==
    IF db["Galera"].exists THEN IsReady("Galera", db["Galera"])
    ELSE db["MariaDB"].exists /\ IsReady("MariaDB", db["MariaDB"])

Provisioned(c) == claim[c].completed /\ claim[c].hash # NoHash

\* An invocation that returns an empty successful result for a claim that is
\* not complete has changed the stored claim.
C18_Returned ==
    \A c \in Claims :
        Ran(c) /\ result[c] = Res(0, FALSE)
               /\ claim[c].exists /\ ~claim[c].del /\ ~claim[c].completed =>
            InstanceOf(claim[c]) # before[c]

C18_Live ==
    \A c \in Claims :
        ([](claim[c].exists /\ ~claim[c].del /\ job[c].state # "failed")
            /\ <>[]DbReady /\ WritesSucceed(c))
        => <>Provisioned(c)

\* C18: a claim that is never marked for deletion, whose backing store exists
\* and becomes ready for good and whose job does not fail, reaches
\* completed=true with a DbCreate hash entry when it is reconciled again after
\* every requeue, error and change of its own; no invocation returns an empty
\* successful result for an incomplete claim without a requeue delay or a
\* persisted change of the claim.
C18_ProgressToCompletion == [](C18_Returned) /\ C18_Live

C18_Witness ==
    \E c \in Claims :
        /\ Ran(c) /\ ~before[c].completed /\ before[c].hash = NoHash
        /\ Provisioned(c) /\ ~claim[c].del /\ InLog(c, "DoJob")

====
